---- MODULE Spec2Model ----
(***************************************************************************)
(* A model of the jitsi-autoscaler coordination core:                      *)
(*   - LockManager (src/src/lock_manager.ts): the Redlock-based            *)
(*     autoscaler lock on the shared Redis store;                          *)
(*   - JibriTracker (src/src/jibri_tracker.ts): worker status, the         *)
(*     availability metrics, their aggregation and the grace period flag.  *)
(* Time is counted in ticks.  Every key of the store carries its remaining *)
(* time to live; a tick ages every key and drops the keys that reach 0.    *)
(***************************************************************************)
EXTENDS Integers, Sequences, FiniteSets, TLC

(***************************************************************************)
(* Bounds of the model.                                                    *)
(***************************************************************************)
\* autoscalerProcessingLockTTL (a configuration value), in ticks
LockTTL == 2

\* the autoscaler replicas that share the store
Replicas == {"r1", "r2"}

VARIABLES
    store,      \* the Redis keyspace: key -> [val, ttl]
    rpc,        \* per replica: where it is in its control cycle
    attempts,   \* per replica: failed attempts of the lock() call in progress
    validity,   \* per replica: remaining validity of the Redlock.Lock it was given
    diedHolding, \* history: the replicas that crashed while the lock key was theirs
    now,        \* the clock, in ticks of one second (Date.now() is now * 1000)
    ntracks,    \* the number of track calls made so far
    tcall,      \* per caller of track: the call in progress or just ended
    reader,     \* the getCurrent or getMetricPeriods call in progress or just ended
    allowed,    \* the last allowScaling call: its group and what it returned
    graceSetAt, \* history: per group, when setGracePeriod last succeeded (-1: never)
    metrics,         \* the list computeAvailableMetric was last called with
    available,       \* what that call returned
    previousMetrics, \* history: the list of the call before
    metricInventoryPerPeriod, \* the lists getAvailableMetricPerPeriod was last called with
    periodCount,              \* the periodCount of that call
    availablePerPeriod        \* what that call returned

lockVars == <<rpc, attempts, validity, diedHolding>>

trackerVars == <<now, ntracks, tcall, reader, allowed, graceSetAt>>

metricVars == <<metrics, available, previousMetrics,
                metricInventoryPerPeriod, periodCount, availablePerPeriod>>

vars == <<store, rpc, attempts, validity, diedHolding,
          now, ntracks, tcall, reader, allowed, graceSetAt,
          metrics, available, previousMetrics,
          metricInventoryPerPeriod, periodCount, availablePerPeriod>>

(***************************************************************************)
(* The store.  A key is the sequence of the ':'-separated segments of the  *)
(* Redis key.                                                              *)
(***************************************************************************)
Max(a, b) == IF a >= b THEN a ELSE b

Min(a, b) == IF a <= b THEN a ELSE b

EmptyStore == [k \in {} |-> [val |-> "", ttl |-> 0, slot |-> 0]]

\* one tick of the store's clock: every ttl decreases, expired keys vanish.
\* A key that was set without an expiry has ttl -1, as Redis reports it, and stays.
Age(s) ==
    LET keep == {k \in DOMAIN s : s[k].ttl = -1 \/ s[k].ttl > 1}
    IN  [k \in keep |-> IF s[k].ttl = -1 THEN s[k] ELSE [s[k] EXCEPT !.ttl = @ - 1]]

\* The keyspace is a table of NumSlots slots, which SCAN walks one slot a call.
\* A key's slot is a hash of the key: here, of its last segment.
NumSlots == 2

SegCode(seg) == IF seg \in {"w1", "1000", "3000", "5000", "7000", "9000"} THEN 1 ELSE 0

SlotOf(key) == SegCode(key[Len(key)]) % NumSlots

\* SET key val EX ttl
StoreSet(s, key, val, ttl) ==
    [k \in (DOMAIN s) \cup {key} |->
        IF k = key THEN [val |-> val, ttl |-> ttl, slot |-> SlotOf(key)] ELSE s[k]]

\* DEL key
StoreDel(s, key) == [k \in (DOMAIN s) \ {key} |-> s[k]]

(***************************************************************************)
(* JibriTracker: the data it stores                                        *)
(***************************************************************************)
\* idleTTL, metricTTL and gracePeriodTTL (configuration values), in seconds
IdleTTL == 2

MetricTTL == 3

GraceTTL == 2

\* the clock stops at MaxTime, and at most MaxTracks track calls are made
MaxTime == 3

MaxTracks == 2

\* the callers of track
Callers == {"t1"}

\* worker ids and group names, as their ':'-separated segments: "a:b" is <<"a", "b">>
Workers == {<<"w1">>, <<"w2">>}

GroupNames == {<<"a">>, <<"a", "b">>}

Groups == GroupNames \cup {<<"default">>}

\* a metadata object with no member
NoMembers == [k \in {} |-> <<"">>]

JibriState(jibriId, busyStatus, healthStatus, metadata) ==
    [jibriId |-> jibriId,
     status |-> [busyStatus |-> busyStatus, health |-> [healthStatus |-> healthStatus]],
     metadata |-> metadata]

\* the states that workers report
JibriStates ==
    {JibriState(<<"w1">>, "IDLE", "HEALTHY", NoMembers),
     JibriState(<<"w2">>, "IDLE", "UNHEALTHY", [group |-> <<"">>]),
     JibriState(<<"w1">>, "IDLE", "HEALTHY", [group |-> <<"a">>]),
     JibriState(<<"w1">>, "BUSY", "UNHEALTHY", [group |-> <<"a">>]),
     JibriState(<<"w2">>, "BUSY", "HEALTHY", [group |-> <<"a", "b">>])}

\* track's choice of the group: metadata.group if it is there and not empty
GroupOfNoDefault(state) ==
    IF "group" \in DOMAIN state.metadata THEN state.metadata.group ELSE <<"undefined">>

GroupOf(state) ==
    IF "group" \in DOMAIN state.metadata /\ state.metadata.group # <<"">>
    THEN state.metadata.group
    ELSE <<"default">>

\* milliseconds per second
MsPerSecond == 1000

\* Date.now()
DateNow == now * MsPerSecond

\* a number in a template literal: its decimal digits
Digits == <<"0", "1", "2", "3", "4", "5", "6", "7", "8", "9">>

RECURSIVE NumStr(_)
NumStr(n) == IF n < 10 THEN Digits[n + 1] ELSE NumStr(n \div 10) \o Digits[(n % 10) + 1]

\* the keys
\* a key per call instead of one per worker
StatusKeyPerCall(group, jibriId) ==
    <<"instance", "status">> \o group \o jibriId \o <<NumStr(DateNow)>>

StatusKey(group, jibriId) == <<"instance", "status">> \o group \o jibriId

\* the metric under the worker's status key
MetricKeyOfStatus(group, jibriId, timestamp) == StatusKey(group, jibriId)

MetricKey(group, jibriId, timestamp) ==
    <<"metric", "available">> \o group \o jibriId \o <<NumStr(timestamp)>>

GraceKey(group) == <<"gracePeriod">> \o group

\* JSON.stringify of an object: its members in order, each a name and a value;
\* JSON.parse reads the members back by name
Member(text, name) == text[CHOOSE i \in 1..Len(text) : text[i][1] = name][2]

MemberNames(text) == {text[i][1] : i \in 1..Len(text)}

StringifyMeta(md) ==
    IF "group" \in DOMAIN md THEN << <<"group", md.group>> >> ELSE << >>

StringifyState(state) ==
    << <<"jibriId", state.jibriId>>,
       <<"status", << <<"busyStatus", state.status.busyStatus>>,
                      <<"health", << <<"healthStatus", state.status.health.healthStatus>> >> >> >> >>,
       <<"metadata", StringifyMeta(state.metadata)>> >>

ParseState(text) ==
    [jibriId |-> Member(text, "jibriId"),
     status |-> [busyStatus |-> Member(Member(text, "status"), "busyStatus"),
                 health |-> [healthStatus |->
                     Member(Member(Member(text, "status"), "health"), "healthStatus")]],
     metadata |-> [k \in MemberNames(Member(text, "metadata")) |->
                     Member(Member(text, "metadata"), k)]]

StringifyMetric(metric) ==
    << <<"jibriId", metric.jibriId>>,
       <<"timestamp", metric.timestamp>>,
       <<"value", metric.value>> >>

ParseMetric(text) ==
    [jibriId |-> Member(text, "jibriId"),
     timestamp |-> Member(text, "timestamp"),
     value |-> Member(text, "value")]

\* what JSON.parse gives for the null that mget returns for a missing key
NullValue == [null |-> TRUE]

(***************************************************************************)
(* The store's reads                                                       *)
(***************************************************************************)
\* GET key, and one item of MGET: the value, or null for a key that is not there
Get(s, key) ==
    IF key \in DOMAIN s THEN [null |-> FALSE, val |-> s[key].val] ELSE [null |-> TRUE]

Mget(s, keys) == [i \in 1..Len(keys) |-> Get(s, keys[i])]

\* MATCH with a pattern that ends in '*': the segments before it are the key's
\* first segments, and the '*' stands for the rest of the key
Glob(pattern, key) ==
    LET n == Len(pattern) - 1
    IN  /\ pattern[n + 1] = "*"
        /\ Len(key) > n
        /\ \A i \in 1..n : key[i] = pattern[i]

RECURSIVE SetToSeq(_)
SetToSeq(S) ==
    IF S = {} THEN << >> ELSE LET x == CHOOSE x \in S : TRUE IN <<x>> \o SetToSeq(S \ {x})

\* SCAN cursor MATCH pattern: the matching keys of the cursor's slot, and the
\* next cursor, which is 0 again after the last slot
Scan(s, cursor, pattern) ==
    [cursor |-> (cursor + 1) % NumSlots,
     keys |-> SetToSeq({k \in DOMAIN s : s[k].slot = cursor /\ Glob(pattern, k)})]

\* SCAN after the table has shrunk since the iteration began: the cursor's slot
\* now also holds the keys of slots the iteration has been through, and SCAN
\* gives them again (it may return a key more than once)
ScanResized(s, cursor, pattern) ==
    [cursor |-> (cursor + 1) % NumSlots,
     keys |-> SetToSeq({k \in DOMAIN s : s[k].slot <= cursor /\ Glob(pattern, k)})]

(***************************************************************************)
(* JibriTracker.track                                                      *)
(***************************************************************************)
\* what redisClient.set resolves to: "OK" when the store has done the write
SetResults == {"OK", "null"}

IdleCall == [pc |-> "idle"]

\* the record of a read that has ended, and of a track call that threw, is
\* dropped at the next step of anything else
Settled(r) == IF r.pc \in {"returned", "threw"} THEN [pc |-> "idle"] ELSE r

SettledCalls(t) == [c \in DOMAIN t |-> IF t[c].pc = "threw" THEN IdleCall ELSE t[c]]

\* track(state) is called; for the record, who has the autoscaler lock then
TrackCall(c, state) ==
    /\ tcall[c].pc \in {"idle", "returned", "threw"}
    /\ ntracks < MaxTracks
    /\ ntracks' = ntracks + 1
    /\ tcall' = [tcall EXCEPT ![c] =
            [pc |-> "status", id |-> ntracks + 1, state |-> state,
             results |-> << >>, statusAge |-> 0, timestamp |-> 0,
             lockOwner |-> IF <<"autoscalerLockKey">> \in DOMAIN store
                           THEN store[<<"autoscalerLockKey">>].val ELSE "nobody"]]
    /\ reader' = Settled(reader)
    /\ UNCHANGED <<store, now, allowed, graceSetAt, lockVars, metricVars>>

\* the status write: SET key value EX idleTTL, without the expiry in StatusSetNoExpiry
StatusSetNoExpiry(s, key, state) == StoreSet(s, key, StringifyState(state), -1)

StatusSet(s, key, state) == StoreSet(s, key, StringifyState(state), IdleTTL)

\* whether track goes on to the metric after the status write resolved
StatusWrittenUnchecked(result) == TRUE

StatusWritten(result) == result = "OK"

\* the status write resolves: the throw if it was not done, else Date.now() is
\* read for the metric and the metric write is sent
TrackStatus(c) ==
    /\ tcall[c].pc = "status"
    /\ \E result \in SetResults :
        LET state == tcall[c].state
            group == GroupOf(state)
            key == StatusKey(group, state.jibriId)
        IN  /\ store' = IF result = "OK"
                        THEN StatusSet(store, key, state)
                        ELSE store
            /\ tcall' = [tcall EXCEPT ![c].results = Append(@, result),
                                      ![c].timestamp = DateNow,
                                      ![c].pc = IF StatusWritten(result) THEN "metric" ELSE "threw"]
    /\ reader' = Settled(reader)
    /\ UNCHANGED <<now, ntracks, allowed, graceSetAt, lockVars, metricVars>>

\* the metric: 1 for an idle worker
MetricOf(state, timestamp) ==
    [jibriId |-> state.jibriId,
     timestamp |-> timestamp,
     value |-> IF state.status.busyStatus = "IDLE" THEN 1 ELSE 0]

\* whether track goes on to return true after the metric write resolved
MetricWrittenUnchecked(resultMetric) == TRUE

MetricWritten(resultMetric) == resultMetric = "OK"

\* the metric write resolves: the throw if it was not done, else the return of true
TrackMetric(c) ==
    /\ tcall[c].pc = "metric"
    /\ \E resultMetric \in SetResults :
        LET state == tcall[c].state
            group == GroupOf(state)
            metricObject == MetricOf(state, tcall[c].timestamp)
            metricKey == MetricKey(group, state.jibriId, metricObject.timestamp)
        IN  /\ store' = IF resultMetric = "OK"
                        THEN StoreSet(store, metricKey, StringifyMetric(metricObject), MetricTTL)
                        ELSE store
            /\ tcall' = [tcall EXCEPT ![c].results = Append(@, resultMetric),
                                      ![c].pc = IF MetricWritten(resultMetric)
                                                THEN "returned" ELSE "threw"]
    /\ reader' = Settled(reader)
    /\ UNCHANGED <<now, ntracks, allowed, graceSetAt, lockVars, metricVars>>

(***************************************************************************)
(* JibriTracker.allowScaling and setGracePeriod                            *)
(***************************************************************************)
AllowScalingIfAbsent(s, group) == Get(s, GraceKey(group)).null

AllowScaling(s, group) ==
    LET result == Get(s, GraceKey(group))
    IN  IF ~result.null /\ Len(result.val) > 0 THEN FALSE ELSE TRUE

AllowScalingCall(group) ==
    /\ allowed' = [group |-> group, result |-> AllowScaling(store, group), at |-> now]
    /\ reader' = Settled(reader)
    /\ tcall' = SettledCalls(tcall)
    /\ UNCHANGED <<store, now, ntracks, graceSetAt, lockVars, metricVars>>

\* JSON.stringify(false)
StringifyFalse == "false"

GraceSetNoExpiry(s, group) == StoreSet(s, GraceKey(group), StringifyFalse, -1)

GraceSet(s, group) == StoreSet(s, GraceKey(group), StringifyFalse, GraceTTL)

SetGracePeriod(group) ==
    /\ \E result \in SetResults :
        IF result = "OK"
        THEN /\ store' = GraceSet(store, group)
             /\ graceSetAt' = [graceSetAt EXCEPT ![group] = now]
        ELSE UNCHANGED <<store, graceSetAt>>
    /\ reader' = Settled(reader)
    /\ tcall' = SettledCalls(tcall)
    /\ UNCHANGED <<now, ntracks, allowed, lockVars, metricVars>>

(***************************************************************************)
(* JibriTracker.getCurrent and getMetricPeriods                            *)
(***************************************************************************)
\* the arguments getMetricPeriods is called with
MaxPeriods == 2

MaxDuration == 2

IdleReader == [pc |-> "idle"]

StatusPattern(group) == <<"instance", "status">> \o group \o <<"*">>

MetricPattern(group) == <<"metric", "available">> \o group \o <<"*">>

Matching(s, pattern) == {k \in DOMAIN s : Glob(pattern, k)}

\* getCurrent(group) is called.  For the record: the track calls that had
\* returned true by then, and the matching keys that are there from now on.
GetCurrent(group) ==
    /\ reader.pc \in {"idle", "returned", "threw"}
    /\ reader' = [pc |-> "scan", op |-> "getCurrent", group |-> group,
                  cursor |-> 0, keys |-> << >>, states |-> << >>,
                  metricPoints |-> << >>, currentTime |-> 0,
                  periodsCount |-> 0, periodDurationSeconds |-> 0,
                  after |-> [c \in Callers |->
                                IF tcall[c].pc = "returned" THEN tcall[c].id ELSE 0],
                  held |-> Matching(store, StatusPattern(group)),
                  shrunk |-> FALSE]
    /\ tcall' = SettledCalls(tcall)
    /\ UNCHANGED <<store, now, ntracks, allowed, graceSetAt, lockVars, metricVars>>

\* getMetricPeriods(group, periodsCount, periodDurationSeconds) is called
GetMetricPeriods(group, periodsCount, periodDurationSeconds) ==
    /\ reader.pc \in {"idle", "returned", "threw"}
    /\ reader' = [pc |-> "scan", op |-> "getMetricPeriods", group |-> group,
                  cursor |-> 0, keys |-> << >>, states |-> << >>,
                  metricPoints |-> [periodIdx \in 1..periodsCount |-> << >>],
                  currentTime |-> DateNow,
                  periodsCount |-> periodsCount,
                  periodDurationSeconds |-> periodDurationSeconds,
                  after |-> [c \in Callers |-> 0],
                  held |-> Matching(store, MetricPattern(group)),
                  shrunk |-> FALSE]
    /\ tcall' = SettledCalls(tcall)
    /\ UNCHANGED <<store, now, ntracks, allowed, graceSetAt, lockVars, metricVars>>

\* the loops go on while the cursor is not '0'
ScanDoneNever(cursor) == FALSE

ScanDone(cursor) == cursor = 0

\* one redisClient.scan of the loop; when keys have gone since the loop began
\* the store may have shrunk its table by now
ReaderScan ==
    /\ reader.pc = "scan"
    /\ \E resized \in IF reader.shrunk /\ reader.cursor > 0 THEN BOOLEAN ELSE {FALSE} :
        LET pattern == IF reader.op = "getCurrent"
                       THEN StatusPattern(reader.group)
                       ELSE MetricPattern(reader.group)
            result == IF resized
                      THEN ScanResized(store, reader.cursor, pattern)
                      ELSE Scan(store, reader.cursor, pattern)
        IN  reader' = [reader EXCEPT
                 !.cursor = result.cursor,
                 !.keys = result.keys,
                 !.shrunk = @ /\ ~resized,
                 !.pc = IF Len(result.keys) > 0 THEN "mget"
                        ELSE IF ScanDone(result.cursor) THEN "returned" ELSE "scan"]
    /\ tcall' = SettledCalls(tcall)
    /\ UNCHANGED <<store, now, ntracks, allowed, graceSetAt, lockVars, metricVars>>

\* period periodIdx (from 0) of a getMetricPeriods call at currentTime
PeriodEnd(currentTime, periodIdx, periodDurationSeconds) ==
    currentTime - periodIdx * periodDurationSeconds * MsPerSecond

PeriodStart(currentTime, periodIdx, periodDurationSeconds) ==
    PeriodEnd(currentTime, periodIdx, periodDurationSeconds)
        - periodDurationSeconds * MsPerSecond

InPeriodClosedStart(timestamp, currentTime, periodIdx, periodDurationSeconds) ==
    /\ timestamp >= PeriodStart(currentTime, periodIdx, periodDurationSeconds)
    /\ timestamp <= PeriodEnd(currentTime, periodIdx, periodDurationSeconds)

InPeriod(timestamp, currentTime, periodIdx, periodDurationSeconds) ==
    /\ timestamp > PeriodStart(currentTime, periodIdx, periodDurationSeconds)
    /\ timestamp <= PeriodEnd(currentTime, periodIdx, periodDurationSeconds)

\* the period loop for one item: the metric is pushed to each period it is in
PushMetric(metricPoints, itemJson, currentTime, periodDurationSeconds) ==
    [i \in DOMAIN metricPoints |->
        IF InPeriod(itemJson.timestamp, currentTime, i - 1, periodDurationSeconds)
        THEN Append(metricPoints[i], itemJson)
        ELSE metricPoints[i]]

RECURSIVE PushMetrics(_, _, _, _)
PushMetrics(metricPoints, items, currentTime, periodDurationSeconds) ==
    IF items = << >>
    THEN metricPoints
    ELSE PushMetrics(
            PushMetric(metricPoints, ParseMetric(Head(items).val),
                       currentTime, periodDurationSeconds),
            Tail(items), currentTime, periodDurationSeconds)

\* redisClient.mget of the keys the scan gave, and the forEach over the items.
\* JSON.parse of a null item is null: getCurrent pushes it, and
\* getMetricPeriods throws on reading its timestamp in the loop over the
\* periods, which it does not enter when periodsCount is 0.
ReaderMget ==
    /\ reader.pc = "mget"
    /\ LET items == Mget(store, reader.keys)
           next == IF ScanDone(reader.cursor) THEN "returned" ELSE "scan"
       IN  IF reader.op = "getCurrent"
           THEN reader' = [reader EXCEPT
                    !.states = @ \o [i \in 1..Len(items) |->
                                        IF items[i].null THEN NullValue
                                        ELSE ParseState(items[i].val)],
                    !.keys = << >>,
                    !.pc = next]
           ELSE IF reader.periodsCount <= 0
           THEN reader' = [reader EXCEPT !.keys = << >>, !.pc = next]
           ELSE IF \E i \in 1..Len(items) : items[i].null
           THEN reader' = [reader EXCEPT !.keys = << >>, !.pc = "threw"]
           ELSE reader' = [reader EXCEPT
                    !.metricPoints = PushMetrics(@, items, reader.currentTime,
                                                 reader.periodDurationSeconds),
                    !.keys = << >>,
                    !.pc = next]
    /\ tcall' = SettledCalls(tcall)
    /\ UNCHANGED <<store, now, ntracks, allowed, graceSetAt, lockVars, metricVars>>

(***************************************************************************)
(* Numbers.  A JavaScript number is an IEEE-754 double.  The ones that     *)
(* computeAvailableMetric makes are 0 and positive normal numbers: zero,   *)
(* or m * 2^(exp - 52) with a significand m of 53 bits, 2^52 <= m < 2^53,  *)
(* held as m = hi * 2^27 + lo.  Each operation gives the exact result      *)
(* rounded to nearest, ties to even.                                       *)
(***************************************************************************)
HiBits == 26

LoBits == 27

F64Zero == [zero |-> TRUE, exp |-> 0, hi |-> 0, lo |-> 0]

\* the double nearest to (hi * 2^27 + lo + rest / 2^width) * 2^(exp - 52),
\* where rest < 2^width holds the bits below the significand
Round(exp, hi, lo, rest, width) ==
    LET guard == IF width = 0 THEN 0 ELSE rest \div 2^(width - 1)
        sticky == width > 0 /\ rest % 2^(width - 1) # 0
        roundUp == guard = 1 /\ (sticky \/ lo % 2 = 1)
    IN  IF ~roundUp THEN [zero |-> FALSE, exp |-> exp, hi |-> hi, lo |-> lo]
        ELSE IF lo + 1 < 2^LoBits THEN [zero |-> FALSE, exp |-> exp, hi |-> hi, lo |-> lo + 1]
        ELSE IF hi + 1 < 2^HiBits THEN [zero |-> FALSE, exp |-> exp, hi |-> hi + 1, lo |-> 0]
        ELSE [zero |-> FALSE, exp |-> exp + 1, hi |-> 2^(HiBits - 1), lo |-> 0]

\* num / den for den <= num < 2 * den, by long division: the leading 1, the
\* other 25 bits of hi, the 27 bits of lo, and two bits below them
F64DivBits(num, den, exp) ==
    LET r0 == num - den
        q1 == (r0 * 2^13) \div den
        r1 == (r0 * 2^13) % den
        q2 == (r1 * 2^12) \div den
        r2 == (r1 * 2^12) % den
        q3 == (r2 * 2^14) \div den
        r3 == (r2 * 2^14) % den
        q4 == (r3 * 2^13) \div den
        r4 == (r3 * 2^13) % den
        guard == (r4 * 2) \div den
        r5 == (r4 * 2) % den
    IN  Round(exp, 2^(HiBits - 1) + q1 * 2^12 + q2, q3 * 2^13 + q4,
              2 * guard + (IF r5 # 0 THEN 1 ELSE 0), 2)

RECURSIVE F64DivScaled(_, _, _)
F64DivScaled(num, den, exp) ==
    IF num < den THEN F64DivScaled(2 * num, den, exp - 1)
    ELSE IF num >= 2 * den THEN F64DivScaled(num, 2 * den, exp + 1)
    ELSE F64DivBits(num, den, exp)

\* a / b for integers a >= 0 and b > 0 (below 2^16)
F64Div(a, b) == IF a = 0 THEN F64Zero ELSE F64DivScaled(a, b, 0)

\* x + y, for exponents no more than 27 apart: the smaller one is shifted
\* right by the difference, the bits that fall off going to rest
F64Add(x, y) ==
    IF x.zero THEN y
    ELSE IF y.zero THEN x
    ELSE LET big == IF x.exp >= y.exp THEN x ELSE y
             small == IF x.exp >= y.exp THEN y ELSE x
             d == big.exp - small.exp
         IN  CASE d <= LoBits ->
                LET rest == small.lo % 2^d
                    slo == small.lo \div 2^d + (small.hi % 2^d) * 2^(LoBits - d)
                    shi == small.hi \div 2^d
                    lo == (big.lo + slo) % 2^LoBits
                    hi == big.hi + shi + (big.lo + slo) \div 2^LoBits
                IN  IF hi < 2^HiBits
                    THEN Round(big.exp, hi, lo, rest, d)
                    ELSE Round(big.exp + 1, hi \div 2,
                               lo \div 2 + (hi % 2) * 2^(LoBits - 1),
                               (lo % 2) * 2^d + rest, d + 1)

(***************************************************************************)
(* JibriTracker.computeAvailableMetric                                     *)
(***************************************************************************)
\* a Map: its keys in the order they were first set, and their values
EmptyMap == [keys |-> << >>, val |-> [k \in {} |-> 0]]

\* !map.get(key): the key is not there, or its value is 0
Falsy(map, key) == key \notin DOMAIN map.val \/ map.val[key] = 0

MapSet(map, key, value) ==
    [keys |-> IF key \in DOMAIN map.val THEN map.keys ELSE Append(map.keys, key),
     val |-> [k \in (DOMAIN map.val) \cup {key} |-> IF k = key THEN value ELSE map.val[k]]]

\* the body of jibriMetrics.forEach; the counts and sums are integers, which
\* doubles hold exactly
AddDataPoint(maps, jibriMetric) ==
    LET currentDataPoints ==
            IF Falsy(maps.dataPointsPerJibri, jibriMetric.jibriId) THEN 0
            ELSE maps.dataPointsPerJibri.val[jibriMetric.jibriId]
        currentAggregatedValue ==
            IF Falsy(maps.aggregatedDataPerJibri, jibriMetric.jibriId) THEN 0
            ELSE maps.aggregatedDataPerJibri.val[jibriMetric.jibriId]
    IN  [dataPointsPerJibri |->
            MapSet(maps.dataPointsPerJibri, jibriMetric.jibriId, currentDataPoints + 1),
         aggregatedDataPerJibri |->
            MapSet(maps.aggregatedDataPerJibri, jibriMetric.jibriId,
                   currentAggregatedValue + jibriMetric.value)]

RECURSIVE AddDataPoints(_, _)
AddDataPoints(maps, jibriMetrics) ==
    IF jibriMetrics = << >>
    THEN maps
    ELSE AddDataPoints(AddDataPoint(maps, Head(jibriMetrics)), Tail(jibriMetrics))

\* the division of the map callback
MeanOfAllPoints(maps, jibriId) ==
    LET n == maps.dataPointsPerJibri
    IN  F64Div(maps.aggregatedDataPerJibri.val[jibriId],
               n.val[n.keys[1]] + (IF Len(n.keys) > 1 THEN n.val[n.keys[2]] ELSE 0)
                                + (IF Len(n.keys) > 2 THEN n.val[n.keys[3]] ELSE 0))

MeanOf(maps, jibriId) ==
    F64Div(maps.aggregatedDataPerJibri.val[jibriId], maps.dataPointsPerJibri.val[jibriId])

\* values.reduce((previousSum, currentValue) => previousSum + currentValue)
RECURSIVE Reduce(_, _)
Reduce(previousSum, values) ==
    IF values = << >>
    THEN previousSum
    ELSE Reduce(F64Add(previousSum, Head(values)), Tail(values))

computeAvailableMetric(jibriMetrics) ==
    LET maps == AddDataPoints([dataPointsPerJibri |-> EmptyMap,
                               aggregatedDataPerJibri |-> EmptyMap], jibriMetrics)
        jibriIds == maps.aggregatedDataPerJibri.keys
        values == [i \in 1..Len(jibriIds) |-> MeanOf(maps, jibriIds[i])]
    IN  IF Len(jibriIds) > 0
        THEN Reduce(Head(values), Tail(values))
        ELSE F64Zero

\* the lists it is called with: at most MaxMetrics metrics of these workers
MaxMetrics == 5

MetricWorkers == {<<"w1">>, <<"w2">>, <<"w3">>}

MetricSamples ==
    {[jibriId |-> w, timestamp |-> 0, value |-> v] : w \in MetricWorkers, v \in {0, 1}}

MetricLists == UNION {[1..n -> MetricSamples] : n \in 0..MaxMetrics}

\* computeAvailableMetric is called with the list, and then again with the
\* list after two neighbours have changed places
ComputeReordered(i) ==
    /\ i \in 1..(Len(metrics) - 1)
    /\ metrics[i] # metrics[i + 1]
    /\ previousMetrics' = metrics
    /\ metrics' = [metrics EXCEPT ![i] = metrics[i + 1], ![i + 1] = metrics[i]]
    /\ available' = computeAvailableMetric(metrics')
    /\ UNCHANGED <<store, lockVars, trackerVars,
                   metricInventoryPerPeriod, periodCount, availablePerPeriod>>

\* Array.prototype.slice(start, end): a negative index counts from the end,
\* and an index beyond the end is the end; SliceAll leaves the list whole
SliceAll(list, start, end) == list

Slice(list, start, end) ==
    LET from == IF start < 0 THEN Max(Len(list) + start, 0) ELSE Min(start, Len(list))
        to == IF end < 0 THEN Max(Len(list) + end, 0) ELSE Min(end, Len(list))
    IN  [i \in 1..Max(to - from, 0) |-> list[from + i]]

getAvailableMetricPerPeriod(inventory, count) ==
    LET periods == Slice(inventory, 0, count)
    IN  [i \in 1..Len(periods) |-> computeAvailableMetric(periods[i])]

\* the lists of one period: none, one, or several samples of one or two workers
PeriodMetric(w, v) == [jibriId |-> <<w>>, timestamp |-> 0, value |-> v]

PeriodLists ==
    {<< >>,
     <<PeriodMetric("w1", 1)>>,
     <<PeriodMetric("w1", 0), PeriodMetric("w1", 1)>>,
     <<PeriodMetric("w1", 1), PeriodMetric("w2", 0)>>,
     <<PeriodMetric("w1", 1), PeriodMetric("w2", 1), PeriodMetric("w2", 1)>>}

PeriodInventories == UNION {[1..n -> PeriodLists] : n \in 0..(MaxPeriods + 1)}

\* getAvailableMetricPerPeriod is called
GetAvailableMetricPerPeriod(count) ==
    /\ periodCount' = count
    /\ availablePerPeriod' = getAvailableMetricPerPeriod(metricInventoryPerPeriod, count)
    /\ UNCHANGED <<store, lockVars, trackerVars, metricInventoryPerPeriod,
                   metrics, available, previousMetrics>>

PerPeriodStart ==
    /\ metricInventoryPerPeriod = << >>
    /\ periodCount = 0
    /\ availablePerPeriod = << >>

MetricStart ==
    /\ metrics = << >>
    /\ previousMetrics = << >>
    /\ available = F64Zero
    /\ PerPeriodStart

(***************************************************************************)
(* Time                                                                    *)
(***************************************************************************)
\* a second passes: the keys age; for the record, so do the status writes of
\* the calls in progress, and a reader's held keys lose those that expired;
\* when keys expire the store has fewer keys than when the read began; the
\* clients' lock objects age as well
Tick ==
    /\ now < MaxTime
    /\ now' = now + 1
    /\ store' = Age(store)
    /\ tcall' = [c \in DOMAIN tcall |->
                    IF tcall[c].pc \in {"metric", "returned"} /\ tcall[c].statusAge < IdleTTL
                    THEN [tcall[c] EXCEPT !.statusAge = @ + 1]
                    ELSE SettledCalls(tcall)[c]]
    /\ reader' = IF reader.pc \in {"scan", "mget"}
                 THEN [reader EXCEPT !.held = @ \cap DOMAIN Age(store),
                                     !.shrunk = @ \/ DOMAIN Age(store) # DOMAIN store]
                 ELSE Settled(reader)
    /\ validity' = [r \in DOMAIN validity |-> Max(validity[r] - 1, 0)]
    /\ UNCHANGED <<ntracks, allowed, graceSetAt, rpc, attempts, diedHolding, metricVars>>

(***************************************************************************)
(* The tracker on an empty store                                           *)
(***************************************************************************)
NoCall == [group |-> <<"">>, result |-> TRUE, at |-> -1]

TrackerStart ==
    /\ now = 0
    /\ ntracks = 0
    /\ tcall = [c \in Callers |-> IdleCall]
    /\ reader = IdleReader
    /\ allowed = NoCall
    /\ graceSetAt = [g \in Groups |-> -1]

LockStart ==
    /\ rpc = [r \in Replicas |-> "idle"]
    /\ attempts = [r \in Replicas |-> 0]
    /\ validity = [r \in Replicas |-> 0]
    /\ diedHolding = {}

TrackerInit == store = EmptyStore /\ TrackerStart /\ LockStart /\ MetricStart

\* track and getCurrent
TrackerNext ==
    \/ \E c \in Callers, state \in JibriStates : TrackCall(c, state)
    \/ \E c \in Callers : TrackStatus(c)
    \/ \E c \in Callers : TrackMetric(c)
    \/ \E group \in Groups : GetCurrent(group)
    \/ ReaderScan
    \/ ReaderMget
    \/ Tick

TrackerSpec == TrackerInit /\ [][TrackerNext]_vars

\* track and getMetricPeriods; the reports are those of the named groups
NamedGroupStates ==
    {state \in JibriStates :
        "group" \in DOMAIN state.metadata /\ state.metadata.group \in GroupNames}

\* the periodsCount and periodDurationSeconds that getMetricPeriods is called with
PeriodArgs == {<<0, 1>>, <<1, MaxDuration>>, <<MaxPeriods, 1>>, <<MaxPeriods, MaxDuration>>}

PeriodsNext ==
    \/ \E c \in Callers, state \in NamedGroupStates : TrackCall(c, state)
    \/ \E c \in Callers : TrackStatus(c)
    \/ \E c \in Callers : TrackMetric(c)
    \/ \E args \in PeriodArgs : GetMetricPeriods(<<"a">>, args[1], args[2])
    \/ ReaderScan
    \/ ReaderMget
    \/ Tick

PeriodsSpec == TrackerInit /\ [][PeriodsNext]_vars

\* track calls of two replicas at a time
Writers == {"t1", "t2"}

WritersInit ==
    /\ store = EmptyStore
    /\ now = 0
    /\ ntracks = 0
    /\ tcall = [c \in Writers |-> IdleCall]
    /\ reader = IdleReader
    /\ allowed = NoCall
    /\ graceSetAt = [g \in Groups |-> -1]
    /\ LockStart
    /\ MetricStart

WritersNext ==
    \/ \E c \in Writers, state \in JibriStates : TrackCall(c, state)
    \/ \E c \in Writers : TrackStatus(c)
    \/ \E c \in Writers : TrackMetric(c)
    \/ Tick

WritersSpec == WritersInit /\ [][WritersNext]_vars

\* setGracePeriod and allowScaling
GraceNext ==
    \/ \E group \in Groups : AllowScalingCall(group)
    \/ \E group \in Groups : SetGracePeriod(group)
    \/ Tick

GraceSpec == TrackerInit /\ [][GraceNext]_vars

\* allowScaling on a store that other versions of the program have written:
\* grace keys with an empty or a non-empty value, with or without an expiry
LegacyFlags ==
    {[val |-> val, ttl |-> ttl, slot |-> 0] : val \in {"", "false"}, ttl \in {-1, 1}}

LegacyStores ==
    UNION {[{GraceKey(group) : group \in present} -> LegacyFlags] :
                present \in SUBSET GroupNames}

LegacyInit == store \in LegacyStores /\ TrackerStart /\ LockStart /\ MetricStart

LegacySpec == LegacyInit /\ [][GraceNext]_vars

\* computeAvailableMetric on every list, in every order
MetricInit ==
    /\ metrics \in MetricLists
    /\ previousMetrics = metrics
    /\ available = computeAvailableMetric(metrics)
    /\ PerPeriodStart
    /\ store = EmptyStore /\ TrackerStart /\ LockStart

MetricNext == \E i \in 1..(MaxMetrics - 1) : ComputeReordered(i)

MetricSpec == MetricInit /\ [][MetricNext]_vars

\* getAvailableMetricPerPeriod on every inventory, with every periodCount
PerPeriodInit ==
    /\ metricInventoryPerPeriod \in PeriodInventories
    /\ periodCount = 0
    /\ availablePerPeriod = << >>
    /\ metrics = << >>
    /\ previousMetrics = << >>
    /\ available = F64Zero
    /\ store = EmptyStore /\ TrackerStart /\ LockStart

PerPeriodNext == \E count \in 0..(MaxPeriods + 2) : GetAvailableMetricPerPeriod(count)

PerPeriodSpec == PerPeriodInit /\ [][PerPeriodNext]_vars

(***************************************************************************)
(* LockManager                                                             *)
(***************************************************************************)
autoscalerProcessingLockKey == <<"autoscalerLockKey">>

\* Redlock options of the constructor
retryCount == 3

\* Redlock's drift allowance, round(driftFactor * ttl) + 2 ms, is below one
\* tick: the validity the client is told is shorter than the key's ttl by it
Drift == 1

\* Redlock acquires with SET key value NX PX ttl on each of its clients; the
\* constructor passes one client, so the quorum is that one node
LockFreeAlways(s) == TRUE

LockFree(s) == autoscalerProcessingLockKey \notin DOMAIN s

\* the key as a successful lock(autoscalerProcessingLockKey, ttl) of replica r
\* leaves it: the lock's value, expiring after the ttl
LockSetNoExpiry(s, r) == StoreSet(s, autoscalerProcessingLockKey, r, -1)

LockSet(s, r) == StoreSet(s, autoscalerProcessingLockKey, r, LockTTL)

LockOwner ==
    IF autoscalerProcessingLockKey \in DOMAIN store
    THEN store[autoscalerProcessingLockKey].val
    ELSE "nobody"

\* lockAutoscaleProcessing() is called
StartLock(r) ==
    /\ rpc[r] = "idle"
    /\ rpc' = [rpc EXCEPT ![r] = "locking"]
    /\ attempts' = [attempts EXCEPT ![r] = 0]
    /\ UNCHANGED <<store, validity, diedHolding, trackerVars, metricVars>>

\* one attempt of Redlock.lock: the key is set if it is absent; otherwise the
\* attempt is repeated (after retryDelay and jitter) until retryCount retries
\* were made, and then the call fails with a LockError
TryLock(r) ==
    /\ rpc[r] = "locking"
    /\ IF LockFree(store)
       THEN /\ store' = LockSet(store, r)
            /\ validity' = [validity EXCEPT ![r] = LockTTL - Drift]
            /\ rpc' = [rpc EXCEPT ![r] = "locked"]
            /\ UNCHANGED <<attempts, diedHolding, trackerVars, metricVars>>
       ELSE IF attempts[r] < retryCount
       THEN /\ attempts' = [attempts EXCEPT ![r] = @ + 1]
            /\ UNCHANGED <<store, validity, rpc, diedHolding, trackerVars, metricVars>>
       ELSE /\ rpc' = [rpc EXCEPT ![r] = "unavailable"]
            /\ UNCHANGED <<store, validity, attempts, diedHolding, trackerVars, metricVars>>

\* the caller of a failed lockAutoscaleProcessing() skips this cycle
SkipCycle(r) ==
    /\ rpc[r] = "unavailable"
    /\ rpc' = [rpc EXCEPT ![r] = "idle"]
    /\ UNCHANGED <<store, validity, attempts, diedHolding, trackerVars, metricVars>>

\* the control loop starts its scaling decisions with the lock it was given
EnterLoop(r) ==
    /\ rpc[r] = "locked"
    /\ rpc' = [rpc EXCEPT ![r] = "loop"]
    /\ UNCHANGED <<store, validity, attempts, diedHolding, trackerVars, metricVars>>

\* the control loop is done and releases: Redlock's unlock deletes the key
\* only if it still holds this lock's value
ExitLoop(r) ==
    /\ rpc[r] = "loop"
    /\ rpc' = [rpc EXCEPT ![r] = "idle"]
    /\ validity' = [validity EXCEPT ![r] = 0]
    /\ store' = IF /\ autoscalerProcessingLockKey \in DOMAIN store
                   /\ store[autoscalerProcessingLockKey].val = r
                THEN StoreDel(store, autoscalerProcessingLockKey)
                ELSE store
    /\ UNCHANGED <<attempts, diedHolding, trackerVars, metricVars>>

\* a replica dies; what it wrote stays in the store until it expires.  One
\* replica at least stays up.
Crash(r) ==
    /\ rpc[r] # "crashed"
    /\ \E o \in Replicas \ {r} : rpc[o] # "crashed"
    /\ rpc' = [rpc EXCEPT ![r] = "crashed"]
    /\ validity' = [validity EXCEPT ![r] = 0]
    /\ diedHolding' = IF LockOwner = r THEN diedHolding \cup {r} ELSE diedHolding
    /\ UNCHANGED <<store, attempts, trackerVars, metricVars>>

\* time passes: the store's keys and the clients' lock objects age
LockTick ==
    /\ store' = Age(store)
    /\ validity' = [r \in Replicas |-> Max(validity[r] - 1, 0)]
    /\ UNCHANGED <<rpc, attempts, diedHolding, trackerVars, metricVars>>

LockInit == store = EmptyStore /\ LockStart /\ TrackerStart /\ MetricStart

LockNext ==
    \/ \E r \in Replicas : StartLock(r)
    \/ \E r \in Replicas : TryLock(r)
    \/ \E r \in Replicas : SkipCycle(r)
    \/ \E r \in Replicas : EnterLoop(r)
    \/ \E r \in Replicas : ExitLoop(r)
    \/ \E r \in Replicas : Crash(r)
    \/ LockTick

LockSpec == LockInit /\ [][LockNext]_vars

\* time passes, and a replica that is up goes on with its cycle
LockFairness ==
    /\ WF_vars(LockTick)
    /\ \A r \in Replicas :
        /\ WF_vars(StartLock(r))
        /\ WF_vars(TryLock(r))
        /\ WF_vars(SkipCycle(r))
        /\ WF_vars(EnterLoop(r))
        /\ WF_vars(ExitLoop(r))

LockLiveSpec == LockSpec /\ LockFairness

\* the store after track(state) has done both its writes at time 0
Tracked(s, state) ==
    LET group == GroupOf(state)
        metricObject == MetricOf(state, 0)
    IN  StoreSet(StatusSet(s, StatusKey(group, state.jibriId), state),
                 MetricKey(group, state.jibriId, metricObject.timestamp),
                 StringifyMetric(metricObject), MetricTTL)

\* the calls that loop, lockAutoscaleProcessing and the two scans, on an empty
\* store and on the store after reports of the default group were tracked
DefaultStates == {state \in JibriStates : GroupOf(state) = <<"default">>}

CallsInit ==
    /\ store \in {EmptyStore} \cup
            {Tracked(Tracked(EmptyStore, pair[1]), pair[2]) :
                pair \in {p \in DefaultStates \X DefaultStates : p[1] # p[2]}}
    /\ TrackerStart
    /\ LockStart
    /\ MetricStart

CallsNext ==
    \/ \E r \in Replicas : StartLock(r)
    \/ \E r \in Replicas : TryLock(r)
    \/ \E r \in Replicas : SkipCycle(r)
    \/ \E r \in Replicas : EnterLoop(r)
    \/ \E r \in Replicas : ExitLoop(r)
    \/ GetCurrent(<<"default">>)
    \/ GetMetricPeriods(<<"default">>, 1, MaxDuration)
    \/ ReaderScan
    \/ ReaderMget
    \/ Tick

\* a call that was made goes on: Redlock's next attempt is made, the next
\* request of a scan loop is sent and answered
CallsFairness ==
    /\ WF_vars(ReaderScan)
    /\ WF_vars(ReaderMget)
    /\ \A r \in Replicas : WF_vars(TryLock(r))

CallsSpec == CallsInit /\ [][CallsNext]_vars /\ CallsFairness

\* track and setGracePeriod while the replicas take the autoscaler lock and
\* the one that has it is in its loop
SharedNext ==
    \/ \E r \in Replicas : StartLock(r)
    \/ \E r \in Replicas : TryLock(r)
    \/ \E r \in Replicas : SkipCycle(r)
    \/ \E r \in Replicas : EnterLoop(r)
    \/ \E c \in Callers, state \in JibriStates : TrackCall(c, state)
    \/ \E c \in Callers : TrackStatus(c)
    \/ \E c \in Callers : TrackMetric(c)
    \/ \E group \in Groups : SetGracePeriod(group)

SharedSpec == TrackerInit /\ [][SharedNext]_vars

(***************************************************************************)
(* C1: whatever the interleaving of acquire attempts, retries, releases    *)
(* and expiries, at most one replica holds a lock that has not expired,    *)
(* and the replica that does is the one the store's lock key names.        *)
(***************************************************************************)
HoldsLock(r) == rpc[r] \in {"locked", "loop"} /\ validity[r] > 0

C1_AtMostOneHolder ==
    /\ \A r \in Replicas : HoldsLock(r) => LockOwner = r
    /\ \A r1, r2 \in Replicas : HoldsLock(r1) /\ HoldsLock(r2) => r1 = r2

\* one replica holds the lock while another has been refused and retries
C1_Witness ==
    \E r, o \in Replicas :
        /\ r # o
        /\ HoldsLock(r)
        /\ rpc[o] = "locking"
        /\ attempts[o] > 0

(***************************************************************************)
(* C2 as claimed: when no replica has crashed, two replicas are never      *)
(* inside the control loop at once, however long a loop body runs.         *)
(***************************************************************************)
InLoop == {r \in Replicas : rpc[r] = "loop"}

C2_OneInLoopAlways ==
    (\A r \in Replicas : rpc[r] # "crashed") => Cardinality(InLoop) <= 1

(***************************************************************************)
(* C2 as amended: when no replica has crashed, at most one of the replicas *)
(* inside the control loop has a lock that is still valid; a second        *)
(* replica is inside only when the lock of the first has run out.          *)
(***************************************************************************)
C2_OneValidInLoop ==
    (\A r \in Replicas : rpc[r] # "crashed") =>
        Cardinality({r \in InLoop : validity[r] > 0}) <= 1

\* a loop body outlasted its lock and a second replica is inside with a valid one
C2_Witness ==
    /\ \A r \in Replicas : rpc[r] # "crashed"
    /\ \E r, o \in InLoop : r # o /\ validity[r] > 0 /\ validity[o] = 0

(***************************************************************************)
(* C3: a lock whose holder crashed is not held forever: once its ttl has   *)
(* run out a replica that is up and keeps attempting gets the lock.        *)
(***************************************************************************)
C3_DeadHolderRecovered ==
    \A h \in Replicas :
        (LockOwner = h /\ rpc[h] = "crashed")
            ~> (\E r \in Replicas : rpc[r] # "crashed" /\ LockOwner = r)

\* the lock is held by a live replica after a holder died with it
C3_Witness ==
    \E h \in diedHolding :
        \E r \in Replicas \ {h} : HoldsLock(r) /\ LockOwner = r

(***************************************************************************)
(* C4: when track(s) has returned true and getCurrent is then called with  *)
(* the group of s (metadata.group, "default" when s has none) and returns  *)
(* before idleTTL has passed since the status write, the list it returns   *)
(* has an entry equal to s in every field.                                 *)
(***************************************************************************)
C4_GroupOf(state) ==
    IF "group" \in DOMAIN state.metadata /\ state.metadata.group # <<"">>
    THEN state.metadata.group
    ELSE <<"default">>

C4_Tracked(c) ==
    /\ reader.pc = "returned"
    /\ reader.op = "getCurrent"
    /\ tcall[c].pc = "returned"
    /\ reader.after[c] = tcall[c].id
    /\ tcall[c].statusAge < IdleTTL
    /\ reader.group = C4_GroupOf(tcall[c].state)

C5_SuccessNeedsBothWrites ==
    \A c \in Callers :
        /\ tcall[c].pc = "returned" => tcall[c].results = <<"OK", "OK">>
        /\ tcall[c].pc = "threw" => tcall[c].results \in {<<"null">>, <<"OK", "null">>}
        /\ tcall[c].pc = "metric" => tcall[c].results = <<"OK">>
        /\ tcall[c].pc = "status" => tcall[c].results = << >>

\* the status write was done, the metric write was not, and the call threw
C5_Witness ==
    \E c \in Callers :
        /\ tcall[c].pc = "threw"
        /\ tcall[c].results = <<"OK", "null">>
        /\ StatusKey(GroupOf(tcall[c].state), tcall[c].state.jibriId) \in DOMAIN store

(***************************************************************************)
(* C6: for every group, allowScaling is false from a setGracePeriod that   *)
(* was done until gracePeriodTTL has passed since the last one, and true   *)
(* from then on; it is true for a group whose grace period was never set.  *)
(***************************************************************************)
C6_InGrace(group) == graceSetAt[group] >= 0 /\ now < graceSetAt[group] + GraceTTL

C6_GracePeriod ==
    \A group \in Groups : AllowScaling(store, group) = ~C6_InGrace(group)

\* allowScaling has returned true for a group whose grace period had run out
C6_Witness ==
    \E group \in Groups :
        /\ graceSetAt[group] >= 0
        /\ allowed.group = group
        /\ allowed.at >= graceSetAt[group] + GraceTTL
        /\ allowed.result = TRUE

(***************************************************************************)
(* C7: in every store, allowScaling(group) is false exactly when the key   *)
(* gracePeriod:{group} is there (not expired) with a value that is not the *)
(* empty string; what it returns depends on no other key.                  *)
(***************************************************************************)
C7_FlagSet(s, group) ==
    \E k \in DOMAIN s :
        k = <<"gracePeriod">> \o group /\ s[k].val # ""

C7_FalseIffFlag ==
    /\ \A group \in Groups : AllowScaling(store, group) = ~C7_FlagSet(store, group)
    /\ \A group \in Groups, other \in DOMAIN store :
            other # GraceKey(group) =>
                AllowScaling(StoreDel(store, other), group) = AllowScaling(store, group)

\* allowScaling has returned true for a group whose key is there with an empty
\* value, while the flag of another group is set
C7_Witness ==
    \E group \in GroupNames, other \in GroupNames :
        /\ GraceKey(group) \in DOMAIN store
        /\ store[GraceKey(group)].val = ""
        /\ allowed = [group |-> group, result |-> TRUE, at |-> now]
        /\ other # group
        /\ C7_FlagSet(store, other)

(***************************************************************************)
(* C8: getMetricPeriods(group, periodCount, D) called at time now returns  *)
(* periodCount lists; all that list i (from 0) holds is stamped in         *)
(* (now - (i+1)*D*1000, now - i*D*1000], and a metric of the group that is *)
(* stored throughout the call is in list i exactly when its timestamp is   *)
(* in that window.  No metric is in two lists, and none is in a list when  *)
(* it is older than periodCount*D seconds or stamped after now.            *)
(***************************************************************************)
C8_Returned == reader.pc = "returned" /\ reader.op = "getMetricPeriods"

C8_InWindow(timestamp, periodIdx) ==
    /\ reader.currentTime - (periodIdx + 1) * reader.periodDurationSeconds * 1000 < timestamp
    /\ timestamp <= reader.currentTime - periodIdx * reader.periodDurationSeconds * 1000

C8_InList(metric, list) ==
    \E j \in 1..Len(list) :
        list[j].jibriId = metric.jibriId /\ list[j].timestamp = metric.timestamp

\* the metrics of the reader's group that were stored throughout the call
C8_Stored ==
    {ParseMetric(store[k].val) : k \in {h \in reader.held : Len(h) = Len(reader.group) + 4}}

C8_Periods ==
    C8_Returned =>
        /\ Len(reader.metricPoints) = reader.periodsCount
        /\ \A i \in 1..Len(reader.metricPoints) :
                \A j \in 1..Len(reader.metricPoints[i]) :
                    C8_InWindow(reader.metricPoints[i][j].timestamp, i - 1)
        /\ \A metric \in C8_Stored :
                \A i \in 1..Len(reader.metricPoints) :
                    C8_InList(metric, reader.metricPoints[i])
                        <=> C8_InWindow(metric.timestamp, i - 1)
        /\ \A i1, i2 \in 1..Len(reader.metricPoints) :
                i1 # i2 =>
                    \A j \in 1..Len(reader.metricPoints[i1]) :
                        ~C8_InList(reader.metricPoints[i1][j], reader.metricPoints[i2])

\* two periods were asked for: a metric is in the second list, and a metric that
\* a racing track stamped after the call's time is stored and in no list
C8_Witness ==
    /\ C8_Returned
    /\ reader.periodsCount = 2
    /\ Len(reader.metricPoints[2]) > 0
    /\ \E k \in Matching(store, MetricPattern(reader.group)) :
            /\ Len(k) = Len(reader.group) + 4
            /\ ParseMetric(store[k].val).timestamp > reader.currentTime
            /\ \A i \in 1..2 :
                    ~C8_InList(ParseMetric(store[k].val), reader.metricPoints[i])

(***************************************************************************)
(* C9: computeAvailableMetric returns the sum, over the distinct workers   *)
(* of the list taken in the order they first appear, of the worker's mean  *)
(* (the number of its samples of value 1 over the number of its samples),  *)
(* each mean and each sum being rounded as a double is; it returns 0 for   *)
(* the empty list; and when every worker has 1, 2 or 4 samples, so that    *)
(* nothing is rounded, it returns the exact sum of the means.              *)
(***************************************************************************)
C9_Samples(list, id) == {i \in 1..Len(list) : list[i].jibriId = id}

C9_Mean(list, id) ==
    F64Div(Cardinality({i \in C9_Samples(list, id) : list[i].value = 1}),
           Cardinality(C9_Samples(list, id)))

\* the positions where a worker appears for the first time, in order
C9_Firsts(list) ==
    SelectSeq([i \in 1..Len(list) |-> i],
              LAMBDA i : \A j \in 1..(i - 1) : list[j].jibriId # list[i].jibriId)

RECURSIVE C9_SumFrom(_, _, _)
C9_SumFrom(list, firsts, k) ==
    IF k = 1
    THEN C9_Mean(list, list[firsts[1]].jibriId)
    ELSE F64Add(C9_SumFrom(list, firsts, k - 1), C9_Mean(list, list[firsts[k]].jibriId))

C9_SumOfMeans(list) ==
    IF list = << >> THEN F64Zero ELSE C9_SumFrom(list, C9_Firsts(list), Len(C9_Firsts(list)))

\* four times the exact sum of the means, when every worker has 1, 2 or 4 samples
RECURSIVE C9_Quarters(_, _)
C9_Quarters(list, ids) ==
    IF ids = {}
    THEN 0
    ELSE LET id == CHOOSE id \in ids : TRUE
         IN  Cardinality({i \in C9_Samples(list, id) : list[i].value = 1})
                * (4 \div Cardinality(C9_Samples(list, id)))
             + C9_Quarters(list, ids \ {id})

C9_Workers(list) == {list[i].jibriId : i \in 1..Len(list)}

C9_AvailableIsSumOfMeans ==
    /\ available = C9_SumOfMeans(metrics)
    /\ metrics = << >> => available = F64Zero
    /\ (\A id \in C9_Workers(metrics) : Cardinality(C9_Samples(metrics, id)) \in {1, 2, 4})
            => available = F64Div(C9_Quarters(metrics, C9_Workers(metrics)), 4)

\* one worker with the samples 1, 1, 0 in some order gives 2/3
C9_Witness ==
    /\ Len(metrics) = 3
    /\ Cardinality(C9_Workers(metrics)) = 1
    /\ Cardinality({i \in 1..3 : metrics[i].value = 1}) = 2
    /\ previousMetrics # metrics
    /\ available = F64Div(2, 3)

(***************************************************************************)
(* C10 as claimed: computeAvailableMetric gives the same result for a list *)
(* and for the list in any other order (any order is reached by making     *)
(* neighbours change places).                                              *)
(***************************************************************************)
C10_OrderInvariant == available = computeAvailableMetric(previousMetrics)

(***************************************************************************)
(* C11: when the matching keys are on two or more scan pages, getCurrent   *)
(* and getMetricPeriods return every record whose key is in the store for  *)
(* the whole of the scan exactly once, none left out and none twice, also  *)
(* when tracks add keys or keys expire while the scan is going on.         *)
(***************************************************************************)
C11_KeyOf(state) == <<"instance", "status">> \o C4_GroupOf(state) \o state.jibriId

\* how many times the record of key k is in what the call returned
C11_Times(k) ==
    IF reader.op = "getCurrent"
    THEN Cardinality({i \in 1..Len(reader.states) :
            /\ reader.states[i] # NullValue
            /\ C11_KeyOf(reader.states[i]) = k})
    ELSE Cardinality({ij \in {<<i, j>> : i \in 1..Len(reader.metricPoints),
                                         j \in 1..MaxTracks + 1} :
            /\ ij[2] <= Len(reader.metricPoints[ij[1]])
            /\ reader.metricPoints[ij[1]][ij[2]].jibriId = <<k[Len(k) - 1]>>
            /\ NumStr(reader.metricPoints[ij[1]][ij[2]].timestamp) = k[Len(k)]})

\* the held keys whose record the call is to return: the status keys, and the
\* metric keys of the group whose timestamp is in one of the periods
C11_Due ==
    IF reader.op = "getCurrent"
    THEN reader.held
    ELSE {k \in reader.held :
            /\ Len(k) = Len(reader.group) + 4
            /\ \E i \in 1..reader.periodsCount :
                    C8_InWindow(ParseMetric(store[k].val).timestamp, i - 1)}

C11_NoneOmitted ==
    reader.pc = "returned" => \A k \in C11_Due : C11_Times(k) >= 1

C11_ExactlyOnce ==
    reader.pc = "returned" => \A k \in C11_Due : C11_Times(k) = 1

(***************************************************************************)
(* C12: in every reachable state of the store there is at most one         *)
(* WorkerState that has not expired for a pair of group and workerId: a    *)
(* later track for the pair overwrites the record and sets its time to     *)
(* live to idleTTL again, it does not add a second record.                 *)
(***************************************************************************)
C12_StatusKeys(s) == {k \in DOMAIN s : k[1] = "instance"}

C12_Pair(s, k) ==
    <<C4_GroupOf(ParseState(s[k].val)), ParseState(s[k].val).jibriId>>

C12_AtMostOne ==
    \A k1, k2 \in C12_StatusKeys(store) :
        C12_Pair(store, k1) = C12_Pair(store, k2) => k1 = k2

\* the step in which the status write of call c is done
C12_StatusWrite(c) == tcall[c].pc = "status" /\ tcall'[c].pc = "metric"

C12_Overwrites ==
    \A c \in DOMAIN tcall :
        C12_StatusWrite(c) =>
            LET key == C11_KeyOf(tcall[c].state)
            IN  /\ C12_StatusKeys(store') = C12_StatusKeys(store) \cup {key}
                /\ store'[key].val = StringifyState(tcall[c].state)
                /\ store'[key].ttl = IdleTTL

C12_OneRecordPerWorker == []C12_AtMostOne /\ [][C12_Overwrites]_vars

\* a worker's status was written a second ago and has just been written again
\* by the other replica: one record, with the whole of idleTTL to live
C12_Witness ==
    \E c \in DOMAIN tcall :
        /\ now = 1
        /\ tcall[c].pc = "metric"
        /\ tcall[c].statusAge = 0
        /\ LET group == C4_GroupOf(tcall[c].state)
               jibriId == tcall[c].state.jibriId
           IN  /\ <<"metric", "available">> \o group \o jibriId \o <<"0">> \in DOMAIN store
               /\ store[C11_KeyOf(tcall[c].state)].ttl = IdleTTL
               /\ Cardinality(C12_StatusKeys(store)) = 1

(***************************************************************************)
(* C13: an AvailabilityMetric record is never edited after it was made:    *)
(* once written under (group, workerId, timestamp), no later operation     *)
(* changes the record's value before it expires, also not a second track   *)
(* for the same worker in the same millisecond with another busyStatus;    *)
(* every successful track call adds one new sample.                        *)
(***************************************************************************)
C13_KeyOf(c) ==
    <<"metric", "available">> \o C4_GroupOf(tcall[c].state) \o tcall[c].state.jibriId
        \o <<NumStr(tcall[c].timestamp)>>

C13_ValueOf(c) == IF tcall[c].state.status.busyStatus = "IDLE" THEN 1 ELSE 0

\* the sample that a call which returned true has written is stored as written
C13_NeverEdited ==
    \A c \in DOMAIN tcall :
        (tcall[c].pc = "returned" /\ C13_KeyOf(c) \in DOMAIN store) =>
            ParseMetric(store[C13_KeyOf(c)].val).value = C13_ValueOf(c)

\* two calls have returned true and the store holds two samples
C13_OneSamplePerCall ==
    (\A c \in DOMAIN tcall : tcall[c].pc = "returned" /\ tcall[c].timestamp = DateNow) =>
        \E k1, k2 \in DOMAIN store : k1[1] = "metric" /\ k2[1] = "metric" /\ k1 # k2

(***************************************************************************)
(* C14: every call ends.  lockAutoscaleProcessing ends after at most       *)
(* retryCount retries, with the lock or with the error that the lock is    *)
(* not available, also when another replica holds the lock all the while;  *)
(* the scan loops of getCurrent and getMetricPeriods end when the store    *)
(* gives the cursor 0 again, also when the store is empty.                 *)
(***************************************************************************)
C14_Scanning == reader.pc \in {"scan", "mget"}

C14_CallsEnd ==
    /\ [](\A r \in Replicas : attempts[r] <= 3)
    /\ \A r \in Replicas :
            (rpc[r] = "locking") ~> (rpc[r] \in {"locked", "unavailable"})
    /\ C14_Scanning ~> (\/ reader.pc = "returned" /\ reader.cursor = 0
                        \/ reader.pc = "threw")

\* a replica was refused after its last retry while the other one holds the
\* lock, and a scan of the empty store has ended
C14_Witness ==
    /\ \E r \in Replicas :
            /\ rpc[r] = "unavailable"
            /\ attempts[r] = 3
            /\ LockOwner \in Replicas \ {r}
    /\ store = [k \in {autoscalerProcessingLockKey} |-> store[k]]
    /\ reader.pc = "returned"
    /\ reader.cursor = 0

(***************************************************************************)
(* C15: a worker whose status is not written again by a successful track   *)
(* stops being returned by getCurrent: once idleTTL has passed since its   *)
(* last successful status write no getCurrent returns it, and when all     *)
(* the workers of a group have expired getCurrent returns the empty list.  *)
(* Nothing but the expiry removes a WorkerState.                           *)
(***************************************************************************)
\* a stored status has between 1 and idleTTL seconds to live
C15_Expiring ==
    \A k \in C12_StatusKeys(store) : store[k].ttl >= 1 /\ store[k].ttl <= IdleTTL

\* a step leaves a stored status as it is, or a second passes and takes one
\* from its time to live, removing it at the end, or a successful status
\* write for its worker starts its time to live again
C15_OnlyExpiry ==
    \A k \in C12_StatusKeys(store) :
        \/ now' = now /\ k \in DOMAIN store' /\ store'[k] = store[k]
        \/ /\ now' = now + 1
           /\ IF store[k].ttl > 1
              THEN /\ k \in DOMAIN store'
                   /\ store'[k].ttl = store[k].ttl - 1
                   /\ store'[k].val = store[k].val
              ELSE k \notin DOMAIN store'
        \/ \E c \in DOMAIN tcall :
               /\ C12_StatusWrite(c)
               /\ k = C11_KeyOf(tcall[c].state)
               /\ store'[k].ttl = IdleTTL

\* getCurrent begins with no state, asks for keys that are stored under the
\* group's prefix, and adds for each key the state stored at that moment, or
\* null when the key has gone
C15_ReturnsStored ==
    reader'.pc # "idle" /\ reader'.op = "getCurrent" =>
        /\ reader.pc \notin {"scan", "mget"} => reader'.states = << >>
        /\ \A i \in 1..Len(reader'.keys) :
                reader.pc = "scan" =>
                    /\ reader'.keys[i] \in C12_StatusKeys(store)
                    /\ Glob(<<"instance", "status">> \o reader.group \o <<"*">>,
                            reader'.keys[i])
        /\ reader.pc = "scan" => reader'.states = reader.states
        /\ reader.pc = "mget" /\ reader'.pc # "mget" =>
                /\ Len(reader'.states) = Len(reader.states) + Len(reader.keys)
                /\ \A i \in 1..Len(reader'.states) :
                        IF i <= Len(reader.states)
                        THEN reader'.states[i] = reader.states[i]
                        ELSE LET k == reader.keys[i - Len(reader.states)]
                             IN  IF k \in DOMAIN store
                                 THEN reader'.states[i] = ParseState(store[k].val)
                                 ELSE reader'.states[i] = NullValue

C16_PerPeriod ==
    /\ Len(availablePerPeriod) =
            IF periodCount <= Len(metricInventoryPerPeriod)
            THEN periodCount ELSE Len(metricInventoryPerPeriod)
    /\ \A i \in 1..Len(availablePerPeriod) :
            availablePerPeriod[i] = computeAvailableMetric(metricInventoryPerPeriod[i])
    /\ store = EmptyStore

\* two of three periods were asked for, with different results
C16_Witness ==
    /\ periodCount = 2
    /\ Len(metricInventoryPerPeriod) = 3
    /\ Len(availablePerPeriod) = 2
    /\ availablePerPeriod[1] # availablePerPeriod[2]
    /\ computeAvailableMetric(metricInventoryPerPeriod[3]) # availablePerPeriod[2]

(***************************************************************************)
(* C17: track is not gated by the autoscaler lock and touches only its     *)
(* own keys: a track call can complete while a replica holds the lock, and *)
(* it changes only instance:status:{g}:{w} and one                         *)
(* metric:available:{g}:{w}:{timestamp}, leaving the lock key, the         *)
(* gracePeriod keys and the keys of other workers and groups as they are;  *)
(* setGracePeriod(g) changes only gracePeriod:{g}.                         *)
(***************************************************************************)
\* the keys that a step sets, removes or changes
C17_Changed ==
    {k \in DOMAIN store \cup DOMAIN store' :
        \/ k \notin DOMAIN store
        \/ k \notin DOMAIN store'
        \/ store'[k] # store[k]}

C17_Frame ==
    /\ \A c \in DOMAIN tcall :
        /\ tcall[c].pc = "status" /\ tcall'[c].pc # "status" =>
                C17_Changed \subseteq {C11_KeyOf(tcall[c].state)}
        /\ tcall[c].pc = "metric" /\ tcall'[c].pc # "metric" =>
                C17_Changed \subseteq {C13_KeyOf(c)}
    /\ \A g \in Groups :
            graceSetAt'[g] # graceSetAt[g] => C17_Changed = {<<"gracePeriod">> \o g}

\* a track call in progress can take its next step whoever has the lock
C17_NotGated ==
    \A c \in DOMAIN tcall :
        /\ tcall[c].pc = "status" => ENABLED TrackStatus(c)
        /\ tcall[c].pc = "metric" => ENABLED TrackMetric(c)

C17_OwnKeysOnly == []C17_NotGated /\ [][C17_Frame]_vars

\* a track call returned true while the replica that had the lock when the
\* call was made still has it, a grace period being set as well
C17_Witness ==
    \E c \in DOMAIN tcall, r \in Replicas :
        /\ tcall[c].pc = "returned"
        /\ tcall[c].lockOwner = r
        /\ LockOwner = r
        /\ rpc[r] = "loop"
        /\ \E k \in DOMAIN store : k[1] = "gracePeriod"

(***************************************************************************)
(* C18: a key that expires between the scan page that returned it and the  *)
(* batch get does not corrupt the read: getCurrent never returns an entry  *)
(* that is null or not a WorkerState, and getMetricPeriods never fails     *)
(* with an exception.                                                      *)
(***************************************************************************)
C18_IsWorkerState(entry) ==
    DOMAIN entry = {"jibriId", "status", "metadata"}

C18_ReadNotCorrupted ==
    /\ reader.pc # "threw"
    /\ reader.pc = "returned" /\ reader.op = "getCurrent" =>
            \A i \in 1..Len(reader.states) : C18_IsWorkerState(reader.states[i])

\* getMetricPeriods never ends with an exception
C18_PeriodsNeverThrow == reader.pc # "threw"

(***************************************************************************)
(* C19: groups are isolated.  For two groups g and h that differ, also     *)
(* when h is g followed by ':' and more, as with "a" and "a:b",            *)
(* getCurrent(g) and getMetricPeriods(g, ...) never return a state or a    *)
(* metric that was written by a track whose resolved group is h.           *)
(***************************************************************************)
C19_OwnGroupOnly ==
    reader.pc = "returned" /\ reader.op = "getCurrent" =>
        \A i \in 1..Len(reader.states) :
            C18_IsWorkerState(reader.states[i]) =>
                C4_GroupOf(reader.states[i]) = reader.group

\* the metrics that getMetricPeriods("a", ...) returns are of worker w1; the
\* reports of this specification for group "a:b" are those of worker w2
C19_OwnGroupMetricsOnly ==
    reader.pc = "returned" /\ reader.op = "getMetricPeriods" =>
        \A i \in 1..Len(reader.metricPoints) :
            \A j \in 1..Len(reader.metricPoints[i]) :
                reader.metricPoints[i][j].jibriId = <<"w1">>

(***************************************************************************)
(* C20: within one track call the status write comes strictly before the   *)
(* metric write, and the metric write is attempted only after the status   *)
(* write was acknowledged: a call whose status write fails writes no       *)
(* metric.  A failure can leave the status updated without a metric, but   *)
(* never a new metric without the status written by the same call.         *)
(***************************************************************************)
C20_MetricKeys(s) == {k \in DOMAIN s : k[1] = "metric"}

\* a call goes from the status write to the metric write when the status
\* write was answered OK, and ends at once when it was not
C20_StatusFirst ==
    \A c \in DOMAIN tcall :
        tcall[c].pc # "idle" =>
            /\ tcall[c].pc = "metric" => tcall[c].results = <<"OK">>
            /\ tcall[c].results = <<"null">> => tcall[c].pc = "threw"
            /\ tcall[c].pc = "status" => tcall[c].results = << >>

\* a step that sets a metric key is the metric step of a call whose status
\* write was answered OK, and the status step sets no metric key
C20_MetricAfterStatus ==
    (\E k \in C20_MetricKeys(store') :
            k \notin DOMAIN store \/ (now' = now /\ store'[k] # store[k])) =>
        \E c \in DOMAIN tcall :
            /\ tcall[c].pc = "metric"
            /\ tcall[c].results = <<"OK">>
            /\ tcall'[c].results = <<"OK", "OK">>
            /\ C20_MetricKeys(store') \subseteq C20_MetricKeys(store) \cup {C13_KeyOf(c)}

C20_StatusBeforeMetric == []C20_StatusFirst /\ [][C20_MetricAfterStatus]_vars

\* one call's status write failed and no metric is stored; the other call's
\* metric write failed after its status was written
C20_Witness ==
    \E c1, c2 \in DOMAIN tcall :
        /\ tcall[c1].pc = "threw"
        /\ tcall[c1].results = <<"null">>
        /\ tcall[c2].pc = "threw"
        /\ tcall[c2].results = <<"OK", "null">>
        /\ C11_KeyOf(tcall[c2].state) \in DOMAIN store
        /\ C20_MetricKeys(store) = {}

====
